---------------------------- MODULE Spec2Model ----------------------------
(***************************************************************************)
(* A model of package filepathfilter (src/filepathfilter/filepathfilter.go) *)
(*                                                                         *)
(* Strings are sequences of one-character strings, so that the package's   *)
(* byte-level string operations (prefix, suffix, split, clean, quote) are  *)
(* computed and never assumed.  The platform is the Unix one:              *)
(* filepath.Separator is "/" and filepath.ListSeparator is ":".            *)
(*                                                                         *)
(* A call that panics (an index out of range) is a result in its own       *)
(* right: every result carries a "panic" flag.                             *)
(***************************************************************************)
EXTENDS Naturals, Integers, Sequences, FiniteSets, TLC

VARIABLES
    nil,        \* the *Filter receiver is the nil pointer
    include,    \* Filter.include: sequence of compiled Patterns
    exclude,    \* Filter.exclude: sequence of compiled Patterns
    raw,        \* the raw pattern string last handed to NewPattern
    pat,        \* the Pattern NewPattern returned for raw
    op,         \* the method called last ("new" right after construction)
    arg,        \* its string argument
    result      \* what it returned: [panic, ok, str]

vars == <<nil, include, exclude, raw, pat, op, arg, result>>

-----------------------------------------------------------------------------
(* Package strings, on sequences of characters.                            *)

sep == <<"/">>

StringsHasPrefix(s, prefix) ==
    /\ Len(prefix) <= Len(s)
    /\ SubSeq(s, 1, Len(prefix)) = prefix

StringsHasSuffix(s, suffix) ==
    /\ Len(suffix) <= Len(s)
    /\ SubSeq(s, Len(s) - Len(suffix) + 1, Len(s)) = suffix

\* strings.Index: the 0-based offset of the first substr in s, or -1.
StringsIndex(s, substr) ==
    LET hits == {i \in 0..(Len(s) - Len(substr)) :
                    SubSeq(s, i + 1, i + Len(substr)) = substr}
    IN  IF hits = {} THEN -1
        ELSE CHOOSE i \in hits : \A j \in hits : i <= j

StringsContains(s, substr) == StringsIndex(s, substr) >= 0

\* s[n:] of Go, n a 0-based offset.
From(s, n) == SubSeq(s, n + 1, Len(s))

\* strings.Split(s, d) for a non-empty separator d: never the empty list.
RECURSIVE StringsSplit(_, _)
StringsSplit(s, d) ==
    LET m == StringsIndex(s, d)
    IN  IF m < 0 THEN <<s>>
        ELSE <<SubSeq(s, 1, m)>> \o StringsSplit(From(s, m + Len(d)), d)

\* strings.SplitN(s, d, 2): cut at the first d, when there is one.
StringsSplitN2(s, d) ==
    LET m == StringsIndex(s, d)
    IN  IF m < 0 THEN <<s>>
        ELSE <<SubSeq(s, 1, m), From(s, m + Len(d))>>

RECURSIVE StringsJoin(_, _)
StringsJoin(elems, d) ==
    IF elems = <<>> THEN <<>>
    ELSE IF Len(elems) = 1 THEN elems[1]
    ELSE elems[1] \o d \o StringsJoin(Tail(elems), d)

\* strings.Replace(s, old, new, -1) for a non-empty old: every
\* non-overlapping occurrence, left to right.
RECURSIVE StringsReplaceAll(_, _, _)
StringsReplaceAll(s, old, new) ==
    LET m == StringsIndex(s, old)
    IN  IF m < 0 THEN s
        ELSE SubSeq(s, 1, m) \o new
             \o StringsReplaceAll(From(s, m + Len(old)), old, new)

-----------------------------------------------------------------------------
(* Package path/filepath (Unix), as far as the package uses it.            *)

StripTrailingSeps(path) ==
    LET keep == {n \in 0..Len(path) :
                    \A k \in (n + 1)..Len(path) : path[k] = "/"}
    IN  SubSeq(path, 1, CHOOSE n \in keep : \A m \in keep : n <= m)

\* One step of filepath.Clean per path element: "" and "." are dropped, ".."
\* removes the element before it unless that is a kept ".." (or the root,
\* where ".." is dropped), anything else is kept.
RECURSIVE CleanElems(_, _, _)
CleanElems(elems, rooted, out) ==
    IF elems = <<>> THEN out
    ELSE LET e == Head(elems)
             rest == Tail(elems)
         IN  IF e = <<>> \/ e = <<".">> THEN CleanElems(rest, rooted, out)
             ELSE IF e = <<".", ".">>
                  THEN IF out # <<>> /\ out[Len(out)] # <<".", ".">>
                       THEN CleanElems(rest, rooted, SubSeq(out, 1, Len(out) - 1))
                       ELSE IF rooted THEN CleanElems(rest, rooted, out)
                       ELSE CleanElems(rest, rooted, Append(out, e))
             ELSE CleanElems(rest, rooted, Append(out, e))

\* filepath.Clean: the shortest equivalent path; "." for an empty result.
Clean(path) ==
    IF path = <<>> THEN <<".">>
    ELSE LET rooted == path[1] = "/"
             body == StringsJoin(CleanElems(StringsSplit(path, sep), rooted, <<>>), sep)
             out == IF rooted THEN sep \o body ELSE body
         IN  IF out = <<>> THEN <<".">> ELSE out

\* filepath.Ext: from the last "." of the last element, or "".
Ext(path) ==
    LET dots == {i \in 1..Len(path) :
                    /\ path[i] = "."
                    /\ \A k \in i..Len(path) : path[k] # "/"}
    IN  IF dots = {} THEN <<>>
        ELSE SubSeq(path, CHOOSE i \in dots : \A j \in dots : j <= i, Len(path))

\* filepath.Base: the last element; "." for "", "/" for separators only.
Base(path) ==
    IF path = <<>> THEN <<".">>
    ELSE LET p == StripTrailingSeps(path)
             seps == {i \in 1..Len(p) : p[i] = "/"}
             last == IF seps = {} THEN 0
                     ELSE CHOOSE i \in seps : \A j \in seps : j <= i
             b == SubSeq(p, last + 1, Len(p))
         IN  IF b = <<>> THEN sep ELSE b

\* filepath.SplitList: the elements of a ":"-separated list (as $PATH is);
\* no element for the empty string.
SplitList(path) ==
    IF path = <<>> THEN <<>> ELSE StringsSplit(path, <<":">>)

\* filepath.Match for patterns made of literals and "*": "*" matches any
\* run of non-separator characters.  (No "?", "[" or "\" occurs in the
\* patterns modelled, so ErrBadPattern never arises.)
RECURSIVE FilepathMatch(_, _)
FilepathMatch(pattern, name) ==
    IF pattern = <<>> THEN name = <<>>
    ELSE IF Head(pattern) = "*"
         THEN \/ FilepathMatch(Tail(pattern), name)
              \/ /\ name # <<>>
                 /\ Head(name) # "/"
                 /\ FilepathMatch(pattern, Tail(name))
    ELSE /\ name # <<>>
         /\ Head(name) = Head(pattern)
         /\ FilepathMatch(Tail(pattern), Tail(name))

-----------------------------------------------------------------------------
(* Package regexp, for the expressions NewPattern compiles: "^", then       *)
(* escaped literals "\c", literals and ".*", then "$".                      *)

RegexpSpecial == {"\\", ".", "+", "*", "?", "(", ")", "|", "[", "]", "{", "}", "^", "$"}

\* regexp.QuoteMeta: a backslash before every metacharacter.
RECURSIVE QuoteMeta(_)
QuoteMeta(s) ==
    IF s = <<>> THEN <<>>
    ELSE (IF Head(s) \in RegexpSpecial THEN <<"\\", Head(s)>> ELSE <<Head(s)>>)
         \o QuoteMeta(Tail(s))

\* The expression between "^" and "$".
RegexpBody(re) == SubSeq(re, 2, Len(re) - 1)

\* Does the whole of s match the body b?
RECURSIVE RegexpMatchBody(_, _)
RegexpMatchBody(b, s) ==
    IF b = <<>> THEN s = <<>>
    ELSE IF Head(b) = "\\" /\ Len(b) >= 2
         THEN /\ s # <<>>
              /\ Head(s) = b[2]
              /\ RegexpMatchBody(From(b, 2), Tail(s))
    ELSE IF Head(b) = "." /\ Len(b) >= 2 /\ b[2] = "*"
         THEN \/ RegexpMatchBody(From(b, 2), s)
              \/ /\ s # <<>>
                 /\ RegexpMatchBody(b, Tail(s))
    ELSE /\ s # <<>>
         /\ (Head(b) = "." \/ Head(s) = Head(b))
         /\ RegexpMatchBody(Tail(b), Tail(s))

\* (*Regexp).MatchString for an expression anchored at both ends.
RegexpMatchString(re, s) == RegexpMatchBody(RegexpBody(re), s)

\* The literal the body starts with, and whether it is the whole body.
RECURSIVE RegexpLiteralRun(_)
RegexpLiteralRun(b) ==
    IF b = <<>> THEN [lit |-> <<>>, complete |-> TRUE]
    ELSE IF Head(b) = "\\" /\ Len(b) >= 2
         THEN LET r == RegexpLiteralRun(From(b, 2))
              IN  [lit |-> <<b[2]>> \o r.lit, complete |-> r.complete]
    ELSE IF Head(b) \in RegexpSpecial
         THEN [lit |-> <<>>, complete |-> FALSE]
    ELSE LET r == RegexpLiteralRun(Tail(b))
         IN  [lit |-> <<Head(b)>> \o r.lit, complete |-> r.complete]

\* (*Regexp).LiteralPrefix: (prefix, complete); complete says the prefix
\* is the entire expression.  The callers read the prefix only when
\* complete is true.
RegexpLiteralPrefix(re) == RegexpLiteralRun(RegexpBody(re))

-----------------------------------------------------------------------------
(* Results.  A Go call either returns or panics; a returned value is a      *)
(* bool (ok), a string (str) or both.                                       *)

Ret(b, s) == [panic |-> FALSE, ok |-> b, str |-> s]
RetBool(b) == Ret(b, <<>>)
RetString(s) == Ret(TRUE, s)
Panic == [panic |-> TRUE, ok |-> FALSE, str |-> <<>>]

-----------------------------------------------------------------------------
(* The Pattern implementations.  One record type holds the fields of all    *)
(* seven structs; kind names the struct.                                    *)

NoFields ==
    [kind |-> "none", pattern |-> <<>>, ext |-> <<>>, rawPattern |-> <<>>,
     wildcardRE |-> <<>>, wildDirs |-> <<>>, relative |-> <<>>,
     prefix |-> <<>>, suffix |-> <<>>, inner |-> <<>>]

localDirSet == {<<"*">>, <<"*", ".", "*">>, <<".">>, <<".", "/">>, <<".", "\\">>}

\* fmt.Sprintf("^%s$", ...) around the quoted pattern with the escaped
\* wildcard replaced by ".*".
CompileWildcard(cleanpattern, escaped) ==
    <<"^">> \o StringsReplaceAll(QuoteMeta(cleanpattern), escaped, <<".", "*">>)
    \o <<"$">>

NewPattern(rawpattern) ==
    LET cleanpattern == Clean(rawpattern)
        hasPathSep == StringsContains(cleanpattern, sep)
        ext == Ext(cleanpattern)
        plen == Len(cleanpattern)
    IN  IF cleanpattern \in localDirSet
        THEN [NoFields EXCEPT !.kind = "noOpMatcher", !.pattern = cleanpattern]
        ELSE IF /\ plen > 1
                /\ ~hasPathSep
                /\ StringsHasPrefix(cleanpattern, <<"*">>)
                /\ From(cleanpattern, 1) = ext
        THEN [NoFields EXCEPT !.kind = "simpleExtPattern", !.ext = ext]
        ELSE IF hasPathSep /\ StringsContains(cleanpattern, <<"*", "*">>)
        THEN [NoFields EXCEPT
                !.kind = "doubleWildcardPattern",
                !.rawPattern = cleanpattern,
                !.wildcardRE = CompileWildcard(cleanpattern, <<"\\", "*", "\\", "*">>)]
        ELSE IF StringsContains(cleanpattern, <<"*">>)
        THEN IF ~hasPathSep
             THEN [NoFields EXCEPT
                     !.kind = "pathlessWildcardPattern",
                     !.rawPattern = cleanpattern,
                     !.wildcardRE = CompileWildcard(cleanpattern, <<"\\", "*">>)]
             ELSE [NoFields EXCEPT
                     !.kind = "pathfulWildcardPattern",
                     !.wildDirs = SplitList(cleanpattern)]
        ELSE IF hasPathSep /\ StringsHasPrefix(cleanpattern, sep)
        THEN LET rel == From(cleanpattern, 1)
             IN  [NoFields EXCEPT
                     !.kind = "pathPrefixPattern",
                     !.rawPattern = cleanpattern,
                     !.relative = IF StringsHasSuffix(rel, sep)
                                  THEN SubSeq(rel, 1, Len(rel) - 1) ELSE rel,
                     !.prefix = IF StringsHasSuffix(rel, sep)
                                THEN rel ELSE rel \o sep]
        ELSE [NoFields EXCEPT
                !.kind = "pathPattern",
                !.rawPattern = cleanpattern,
                !.prefix = cleanpattern \o sep,
                !.suffix = sep \o cleanpattern,
                !.inner = sep \o cleanpattern \o sep]

\* convertToPatterns: NewPattern of each raw pattern, in order.
convertToPatterns(rawpatterns) ==
    [i \in 1..Len(rawpatterns) |-> NewPattern(rawpatterns[i])]

pathPrefixPattern_Match(p, name) ==
    IF name = p.relative \/ StringsHasPrefix(name, p.prefix)
    THEN RetBool(TRUE)
    ELSE RetBool(FilepathMatch(p.rawPattern, name))

pathPrefixPattern_HasPrefix(p, name) ==
    RetBool(StringsHasPrefix(p.relative, name))

\* pathPattern.Match without its filepath.Match fallback.
pathPattern_Match_NoGlob(p, name) ==
    RetBool(\/ StringsHasPrefix(name, p.prefix)
            \/ StringsHasSuffix(name, p.suffix)
            \/ StringsContains(name, p.inner))

pathPattern_Match(p, name) ==
    IF \/ StringsHasPrefix(name, p.prefix)
       \/ StringsHasSuffix(name, p.suffix)
       \/ StringsContains(name, p.inner)
    THEN RetBool(TRUE)
    ELSE RetBool(FilepathMatch(p.rawPattern, name))

pathPattern_HasPrefix(p, name) ==
    RetBool(StringsHasPrefix(p.prefix, name))

simpleExtPattern_Match(p, name) == RetBool(StringsHasSuffix(name, p.ext))

simpleExtPattern_HasPrefix(p, name) == RetBool(TRUE)

\* splits[:n] joined by the separator, for the cons cell "splits" that
\* strings.SplitN(dir, "*", 2) returned for the pattern element dir.  Go
\* slices up to the capacity, which SplitN makes min(2, len(dir)+1): an
\* element past the length is the empty string, one past the capacity is
\* a panic.
JoinCell(cell, dir, n) ==
    LET cap == IF Len(dir) + 1 < 2 THEN Len(dir) + 1 ELSE 2
    IN  IF n > cap THEN Panic
        ELSE RetString(StringsJoin(
                [k \in 1..n |-> IF k <= Len(cell) THEN cell[k] ELSE <<>>], sep))

\* The loop of partial over the elements of filepath.SplitList(name), from
\* element i (1-based) on.  "matched" is 0 whenever it is read: the one
\* place that changes it leaves the inner loop at once.
RECURSIVE partialLoop(_, _, _, _)
partialLoop(p, name, splits, i) ==
    IF i > Len(splits) THEN RetString(name)
    ELSE IF i > Len(p.wildDirs) THEN Panic      \* p.wildDirs[i]: out of range
    ELSE LET dir == splits[i]
             matched == 0
             cell == StringsSplitN2(p.wildDirs[i], <<"*">>)
         IN  IF ~StringsHasPrefix(From(dir, matched), cell[1])
             THEN JoinCell(cell, p.wildDirs[i], i - 1)
             ELSE IF Len(cell) = 2
             THEN IF StringsContains(cell[2], <<"*">>)
                  THEN partialLoop(p, name, splits, i + 1)
                  ELSE IF ~StringsHasSuffix(From(dir, matched), cell[2])
                  THEN JoinCell(cell, p.wildDirs[i], i - 1)
                  ELSE partialLoop(p, name, splits, i + 1)
             ELSE partialLoop(p, name, splits, i + 1)

partial(p, name) == partialLoop(p, name, SplitList(name), 1)

pathfulWildcardPattern_HasPrefix(p, name) ==
    LET m == partial(p, name)
    IN  IF m.panic THEN Panic ELSE RetBool(Len(m.str) > 0)

pathfulWildcardPattern_Match(p, name) ==
    LET m == partial(p, name)
    IN  IF m.panic THEN Panic ELSE RetBool(m.str = name)

pathfulWildcardPattern_String(p) == StringsJoin(p.wildDirs, sep)

pathlessWildcardPattern_Match(p, name) ==
    RetBool(\/ FilepathMatch(p.rawPattern, name)
            \/ RegexpMatchString(p.wildcardRE, Base(name)))

pathlessWildcardPattern_HasPrefix(p, name) ==
    LET lp == RegexpLiteralPrefix(p.wildcardRE)
    IN  IF ~lp.complete THEN RetBool(TRUE)
        ELSE RetBool(StringsHasPrefix(name, lp.lit))

doubleWildcardPattern_Match(p, name) ==
    RetBool(\/ FilepathMatch(p.rawPattern, name)
            \/ RegexpMatchString(p.wildcardRE, name))

doubleWildcardPattern_HasPrefix(p, name) ==
    LET lp == RegexpLiteralPrefix(p.wildcardRE)
    IN  IF ~lp.complete THEN RetBool(TRUE)
        ELSE RetBool(StringsHasPrefix(name, lp.lit))

noOpMatcher_Match(p, name) == RetBool(TRUE)

noOpMatcher_HasPrefix(p, name) == RetBool(TRUE)

\* Pattern.Match, dispatched on the dynamic type.
PatternMatch(p, name) ==
    CASE p.kind = "noOpMatcher" -> noOpMatcher_Match(p, name)
      [] p.kind = "simpleExtPattern" -> simpleExtPattern_Match(p, name)
      [] p.kind = "doubleWildcardPattern" -> doubleWildcardPattern_Match(p, name)
      [] p.kind = "pathlessWildcardPattern" -> pathlessWildcardPattern_Match(p, name)
      [] p.kind = "pathfulWildcardPattern" -> pathfulWildcardPattern_Match(p, name)
      [] p.kind = "pathPrefixPattern" -> pathPrefixPattern_Match(p, name)
      [] p.kind = "pathPattern" -> pathPattern_Match(p, name)

\* Pattern.HasPrefix, dispatched on the dynamic type.
PatternHasPrefix(p, name) ==
    CASE p.kind = "noOpMatcher" -> noOpMatcher_HasPrefix(p, name)
      [] p.kind = "simpleExtPattern" -> simpleExtPattern_HasPrefix(p, name)
      [] p.kind = "doubleWildcardPattern" -> doubleWildcardPattern_HasPrefix(p, name)
      [] p.kind = "pathlessWildcardPattern" -> pathlessWildcardPattern_HasPrefix(p, name)
      [] p.kind = "pathfulWildcardPattern" -> pathfulWildcardPattern_HasPrefix(p, name)
      [] p.kind = "pathPrefixPattern" -> pathPrefixPattern_HasPrefix(p, name)
      [] p.kind = "pathPattern" -> pathPattern_HasPrefix(p, name)

\* Pattern.String, dispatched on the dynamic type.
PatternString(p) ==
    CASE p.kind = "noOpMatcher" -> p.pattern
      [] p.kind = "simpleExtPattern" -> <<"*">> \o p.ext
      [] p.kind = "pathfulWildcardPattern" -> pathfulWildcardPattern_String(p)
      [] OTHER -> p.rawPattern

-----------------------------------------------------------------------------
(* Filter.  f is [nil, include, exclude].                                   *)

\* `for _, p := range pats { if p.Match(name) { ... } }` from element k on:
\* the index of the first pattern that matches (0: none), or a panic when
\* a Match panics before one does.
RECURSIVE FirstMatch(_, _, _)
FirstMatch(pats, name, k) ==
    IF k > Len(pats) THEN [panic |-> FALSE, idx |-> 0]
    ELSE LET m == PatternMatch(pats[k], name)
         IN  IF m.panic THEN [panic |-> TRUE, idx |-> 0]
             ELSE IF m.ok THEN [panic |-> FALSE, idx |-> k]
             ELSE FirstMatch(pats, name, k + 1)

\* The same loop over p.HasPrefix(name).
RECURSIVE FirstHasPrefix(_, _, _)
FirstHasPrefix(pats, name, k) ==
    IF k > Len(pats) THEN [panic |-> FALSE, idx |-> 0]
    ELSE LET m == PatternHasPrefix(pats[k], name)
         IN  IF m.panic THEN [panic |-> TRUE, idx |-> 0]
             ELSE IF m.ok THEN [panic |-> FALSE, idx |-> k]
             ELSE FirstHasPrefix(pats, name, k + 1)

RECURSIVE HasPrefixLoop(_, _, _)

\* The loop L without `if len(f.include) == 0 { return true }`.
HasPrefixLoop_NoIncludeCheck(f, parts, i) ==
    IF i <= 0 THEN RetBool(FALSE)
    ELSE LET prefix == StringsJoin(SubSeq(parts, 1, i), sep)
             ex == FirstMatch(f.exclude, prefix, 1)
             in == FirstHasPrefix(f.include, prefix, 1)
         IN  IF ex.panic THEN Panic
             ELSE IF ex.idx > 0 THEN RetBool(FALSE)
             ELSE IF in.panic THEN Panic
             ELSE IF in.idx > 0 THEN RetBool(TRUE)
             ELSE HasPrefixLoop(f, parts, i - 1)

\* The loop L with `break` for `break L`: a matching exclude pattern ends
\* the loop over the exclude patterns only.
HasPrefixLoop_PlainBreak(f, parts, i) ==
    IF i <= 0 THEN RetBool(FALSE)
    ELSE LET prefix == StringsJoin(SubSeq(parts, 1, i), sep)
             ex == FirstMatch(f.exclude, prefix, 1)
             in == FirstHasPrefix(f.include, prefix, 1)
         IN  IF ex.panic THEN Panic
             ELSE IF Len(f.include) = 0 THEN RetBool(TRUE)
             ELSE IF in.panic THEN Panic
             ELSE IF in.idx > 0 THEN RetBool(TRUE)
             ELSE HasPrefixLoop(f, parts, i - 1)

\* The loop L of Filter.HasPrefix at i, counting down to 1.
HasPrefixLoop(f, parts, i) ==
    IF i <= 0 THEN RetBool(FALSE)
    ELSE LET prefix == StringsJoin(SubSeq(parts, 1, i), sep)
             ex == FirstMatch(f.exclude, prefix, 1)
             in == FirstHasPrefix(f.include, prefix, 1)
         IN  IF ex.panic THEN Panic
             ELSE IF ex.idx > 0 THEN RetBool(FALSE)          \* break L
             ELSE IF Len(f.include) = 0 THEN RetBool(TRUE)
             ELSE IF in.panic THEN Panic
             ELSE IF in.idx > 0 THEN RetBool(TRUE)
             ELSE HasPrefixLoop(f, parts, i - 1)

FilterHasPrefix(f, prefix) ==
    IF f.nil THEN RetBool(TRUE)
    ELSE LET parts == StringsSplit(prefix, sep)
         IN  HasPrefixLoop(f, parts, Len(parts))

AllowsPattern(f, filename) ==
    IF f.nil THEN Ret(TRUE, <<>>)
    ELSE IF Len(f.include) + Len(f.exclude) = 0 THEN Ret(TRUE, <<>>)
    ELSE LET cleanedName == Clean(filename)
             inc == FirstMatch(f.include, cleanedName, 1)
             ex == FirstMatch(f.exclude, cleanedName, 1)
             pattern == IF Len(f.include) > 0
                        THEN PatternString(f.include[inc.idx]) ELSE <<>>
         IN  IF Len(f.include) > 0 /\ inc.panic THEN Panic
             ELSE IF Len(f.include) > 0 /\ inc.idx = 0 THEN Ret(FALSE, <<>>)
             ELSE IF ex.panic THEN Panic
             ELSE IF ex.idx > 0 THEN Ret(FALSE, PatternString(f.exclude[ex.idx]))
             ELSE Ret(TRUE, pattern)

Allows(f, filename) ==
    LET r == AllowsPattern(f, filename)
    IN  IF r.panic THEN Panic ELSE RetBool(r.ok)

\* New: both lists compiled, the receiver not nil.
New(inc, exc) ==
    [nil |-> FALSE, include |-> convertToPatterns(inc),
     exclude |-> convertToPatterns(exc)]

\* The Filter the state holds.
filter == [nil |-> nil, include |-> include, exclude |-> exclude]

-----------------------------------------------------------------------------
(* Inputs.  Patterns and paths are path elements joined by the separator;   *)
(* the elements are fixed, the numbers of elements are the bounds.          *)

MaxPatternDepth == 2    \* elements of a raw pattern
MaxNameDepth == 3       \* elements of a name handed to a Pattern
MaxPatterns == 2        \* patterns of a Filter, include and exclude together
MaxFilterDepth == 2     \* elements of a path handed to a Filter
MaxLiteralDepth == 3    \* elements of a literal raw pattern
MaxLen == 4             \* characters of a string handed to a permissive Filter

Joined(elems, depth) ==
    {StringsJoin(c, sep) : c \in UNION {[1..k -> elems] : k \in 1..depth}}

SeqsUpTo(S, n) == UNION {[1..k -> S] : k \in 0..n}

PatternElems ==
    {<<>>, <<"a">>, <<"b">>, <<"a", ".", "b">>, <<".">>,
     <<"*">>, <<"*", "*">>, <<"*", ".", "b">>, <<"a", "*">>, <<"b", ":", "a">>}

NameElems ==
    {<<>>, <<"a">>, <<"b">>, <<"a", ".", "b">>, <<"b", ":", "a">>}

LiteralElems ==
    {<<>>, <<"a">>, <<"b">>, <<"a", ".", "b">>, <<"b", ":", "a">>,
     <<".">>, <<".", ".">>}

FilterPatterns ==
    {<<"b">>, <<"/", "a">>, <<"*", ".", "b">>, <<"a", "*">>,
     <<"a", "/", "*">>, <<"a", "/", "*", "*">>}

Alphabet == {"a", "/", ".", "*", ":"}

RawPatterns == Joined(PatternElems, MaxPatternDepth)
PatternNames == Joined(NameElems, MaxNameDepth)
FilterNames == Joined(NameElems, MaxFilterDepth)
\* Raw patterns with no "*" that do not start with the separator.
LiteralPatterns ==
    {p \in Joined(LiteralElems, MaxLiteralDepth) : p = <<>> \/ p[1] # "/"}
AllStrings == SeqsUpTo(Alphabet, MaxLen)

-----------------------------------------------------------------------------
(* The state machine: a Pattern or a Filter is constructed once (Init) and  *)
(* then only queried; a query leaves its result in the state until the      *)
(* caller takes it.                                                         *)

NoResult == RetBool(FALSE)

Idle == op = "idle" /\ arg = <<>> /\ result = NoResult

\* NewPattern(raw) for a raw pattern of the pattern inputs.
InitPattern ==
    /\ raw \in RawPatterns
    /\ pat = NewPattern(raw)
    /\ nil = TRUE /\ include = <<>> /\ exclude = <<>>
    /\ Idle

\* NewPattern(raw) for a literal raw pattern.
InitLiteral ==
    /\ raw \in LiteralPatterns
    /\ pat = NewPattern(raw)
    /\ nil = TRUE /\ include = <<>> /\ exclude = <<>>
    /\ Idle

\* New(inc, exc) for lists of at most MaxPatterns raw patterns together.
InitFilter ==
    /\ \E inc \in SeqsUpTo(FilterPatterns, MaxPatterns) :
         \E exc \in SeqsUpTo(FilterPatterns, MaxPatterns - Len(inc)) :
            /\ nil = New(inc, exc).nil
            /\ include = New(inc, exc).include
            /\ exclude = New(inc, exc).exclude
    /\ raw = <<>> /\ pat = NoFields
    /\ Idle

\* The nil *Filter, and New(nil, nil).
InitPermissive ==
    /\ nil \in BOOLEAN
    /\ include = <<>> /\ exclude = <<>>
    /\ raw = <<>> /\ pat = NoFields
    /\ Idle

Call(name, a, r) ==
    /\ op = "idle"
    /\ op' = name
    /\ arg' = a
    /\ result' = r
    /\ UNCHANGED <<nil, include, exclude, raw, pat>>

CallMatch(name) == Call("Match", name, PatternMatch(pat, name))

CallHasPrefix(name) == Call("HasPrefix", name, PatternHasPrefix(pat, name))

CallString == Call("String", <<>>, RetString(PatternString(pat)))

CallAllowsPattern(filename) ==
    Call("AllowsPattern", filename, AllowsPattern(filter, filename))

CallAllows(filename) == Call("Allows", filename, Allows(filter, filename))

CallFilterHasPrefix(prefix) ==
    Call("Filter.HasPrefix", prefix, FilterHasPrefix(filter, prefix))

\* The caller takes the result (or recovers from the panic).
Return ==
    /\ op # "idle"
    /\ op' = "idle"
    /\ arg' = <<>>
    /\ result' = NoResult
    /\ UNCHANGED <<nil, include, exclude, raw, pat>>

NextPattern ==
    \/ \E name \in PatternNames : CallMatch(name)
    \/ \E name \in PatternNames : CallHasPrefix(name)
    \/ CallString
    \/ Return

NextLiteral ==
    \/ CallMatch(raw)
    \/ CallMatch(Clean(raw))
    \/ CallString
    \/ Return

NextFilter ==
    \/ \E filename \in FilterNames : CallAllowsPattern(filename)
    \/ \E filename \in FilterNames : CallAllows(filename)
    \/ \E prefix \in FilterNames : CallFilterHasPrefix(prefix)
    \/ Return

NextPermissive ==
    \/ \E s \in AllStrings : CallAllowsPattern(s)
    \/ \E s \in AllStrings : CallAllows(s)
    \/ \E s \in AllStrings : CallFilterHasPrefix(s)
    \/ Return

SpecPattern == InitPattern /\ [][NextPattern]_vars
SpecLiteral == InitLiteral /\ [][NextLiteral]_vars
SpecFilter == InitFilter /\ [][NextFilter]_vars
SpecPermissive == InitPermissive /\ [][NextPermissive]_vars

-----------------------------------------------------------------------------
(* Vocabulary of the properties.                                            *)

Returned(r) == ~r.panic
ReturnedTrue(r) == ~r.panic /\ r.ok

\* A Pattern Matches a path: the call returns true.
Matches(p, path) == ReturnedTrue(PatternMatch(p, path))

\* The proper ancestor directories of a path: its first k elements joined
\* by the separator, 1 <= k < number of elements.
Ancestors(path) ==
    LET elems == StringsSplit(path, sep)
    IN  {StringsJoin(SubSeq(elems, 1, k), sep) : k \in 1..(Len(elems) - 1)}

\* A cleaned, relative path.
CleanRelative(path) == path = Clean(path) /\ path[1] # "/"

Least(S) == CHOOSE i \in S : \A j \in S : i <= j

\* The reference of C3 for AllowsPattern on a Filter with a pattern.
ReferenceAllowsPattern(f, path) ==
    LET C == Clean(path)
        incs == {i \in 1..Len(f.include) : Matches(f.include[i], C)}
        excs == {i \in 1..Len(f.exclude) : Matches(f.exclude[i], C)}
    IN  IF Len(f.include) > 0 /\ incs = {} THEN Ret(FALSE, <<>>)
        ELSE IF excs # {} THEN Ret(FALSE, PatternString(f.exclude[Least(excs)]))
        ELSE IF Len(f.include) = 0 THEN Ret(TRUE, <<>>)
        ELSE Ret(TRUE, PatternString(f.include[Least(incs)]))

\* Element by element: as many elements in the path as in the pattern, and
\* each path element matched by its pattern element, "*" staying inside it.
MatchesByElement(pattern, path) ==
    LET pe == StringsSplit(pattern, sep)
        ne == StringsSplit(path, sep)
    IN  /\ Len(pe) = Len(ne)
        /\ \A i \in 1..Len(pe) : FilepathMatch(pe[i], ne[i])

\* The number of "*" in a pattern.
Stars(pattern) == Cardinality({i \in 1..Len(pattern) : pattern[i] = "*"})

\* The text of a pattern before its first wildcard.
LiteralBeforeWildcard(pattern) ==
    SubSeq(pattern, 1, StringsIndex(pattern, <<"*">>))

-----------------------------------------------------------------------------
(* The claims.                                                              *)

\* C1 (SpecFilter): pruning with Filter.HasPrefix never hides an allowed
\* path: when Allows(P) returns true for a cleaned path P, HasPrefix(D)
\* returns true for every proper ancestor directory D of P.
C1_PruningNeverHidesAllowedPath ==
    (op = "Allows" /\ CleanRelative(arg) /\ ReturnedTrue(result))
        => \A D \in Ancestors(arg) : FilterHasPrefix(filter, D) = RetBool(TRUE)

\* C2 (SpecPattern): when Match(P) returns true, HasPrefix(D) and
\* HasPrefix(D + separator) return true for every proper ancestor
\* directory D of P.
C2_MatchImpliesHasPrefixOfAncestors ==
    (op = "Match" /\ CleanRelative(arg) /\ ReturnedTrue(result))
        => \A D \in Ancestors(arg) :
              /\ PatternHasPrefix(pat, D) = RetBool(TRUE)
              /\ PatternHasPrefix(pat, D \o sep) = RetBool(TRUE)

\* C3 (SpecFilter): on a non-nil Filter with at least one pattern,
\* AllowsPattern(path) returns the reference pair (no include matches: "",
\* false; else the first matching exclude, false; else the first matching
\* include or "", true), and Allows(path) returns its boolean.
C3_AllowsPatternIsReference ==
    (~nil /\ Len(include) + Len(exclude) > 0)
        => /\ op = "AllowsPattern" => result = ReferenceAllowsPattern(filter, arg)
           /\ op = "Allows" => result = RetBool(ReferenceAllowsPattern(filter, arg).ok)

\* C3, where AllowsPattern returns (SpecFilter): the result is the
\* reference pair.
C3_ReturnedPairIsReference ==
    (~nil /\ Len(include) + Len(exclude) > 0 /\ Returned(result))
        => /\ op = "AllowsPattern" => result = ReferenceAllowsPattern(filter, arg)
           /\ op = "Allows" => result = RetBool(ReferenceAllowsPattern(filter, arg).ok)

\* C4 (SpecPattern): a pattern with a separator and a single "*"
\* (pathful-wildcard) matches a path only when the path has as many
\* directory elements as the pattern and each element matches its pattern
\* element, "*" standing for characters of that one element: `a/*` does
\* not match `a/b/a`.
C4_PathfulWildcardMatchesByElement ==
    (/\ pat.kind = "pathfulWildcardPattern"
     /\ Stars(Clean(raw)) = 1
     /\ op = "Match"
     /\ CleanRelative(arg)
     /\ ReturnedTrue(result))
        => MatchesByElement(Clean(raw), arg)

\* C5 (SpecPattern): `**/<name>` matches <name> at every depth, depth zero
\* included: Match returns true for <name>, b/<name> and b/b/<name>.
C5_DoubleWildcardMatchesEveryDepth ==
    \A n \in {<<"a">>, <<"a", ".", "b">>} :
        (/\ raw = <<"*", "*", "/">> \o n
         /\ op = "Match"
         /\ arg \in {n, <<"b", "/">> \o n, <<"b", "/", "b", "/">> \o n})
            => result = RetBool(TRUE)

\* C6 (SpecFilter): a Filter whose only include is `a/**` (no excludes)
\* returns true for HasPrefix("a") and false for HasPrefix("b"); and a
\* double-wildcard or pathless-wildcard pattern with a non-empty literal L
\* before its first wildcard has HasPrefix(name) true only for a name that
\* starts with L (or, read in the claim's favour, that L starts with, as
\* "a" for `a/**`).
C6_WildcardHasPrefixIsLiteralPrefix ==
    op = "Filter.HasPrefix"
        => /\ (include = convertToPatterns(<<<<"a", "/", "*", "*">>>>) /\ exclude = <<>>)
                => /\ arg = <<"a">> => result = RetBool(TRUE)
                   /\ arg = <<"b">> => result = RetBool(FALSE)
           /\ \A i \in 1..Len(include) :
                LET L == LiteralBeforeWildcard(PatternString(include[i]))
                IN  (/\ include[i].kind \in {"doubleWildcardPattern",
                                             "pathlessWildcardPattern"}
                     /\ L # <<>>)
                        => (PatternHasPrefix(include[i], arg).ok
                              => \/ StringsHasPrefix(arg, L)
                                 \/ StringsHasPrefix(L, arg))

\* C7 (SpecPattern): the engine is total: every call of Match, HasPrefix
\* and String on a Pattern NewPattern built returns a value, never panics.
C7_NoCallPanics ==
    op \in {"Match", "HasPrefix", "String"} => Returned(result)

\* C8 (SpecPermissive): the nil Filter and the Filter with no pattern are
\* permissive: for every string s, AllowsPattern(s) returns ("", true),
\* Allows(s) returns true and HasPrefix(s) returns true.
C8_NilAndEmptyFilterArePermissive ==
    (nil \/ Len(include) + Len(exclude) = 0)
        => /\ op = "AllowsPattern" => result = Ret(TRUE, <<>>)
           /\ op = "Allows" => result = RetBool(TRUE)
           /\ op = "Filter.HasPrefix" => result = RetBool(TRUE)

\* C8, witness: HasPrefix of a prefix with directories was asked of the
\* non-nil Filter with no pattern, and returned true.
C8_Witness ==
    /\ ~nil /\ include = <<>> /\ exclude = <<>>
    /\ op = "Filter.HasPrefix"
    /\ Len(StringsSplit(arg, sep)) >= 2
    /\ result = RetBool(TRUE)

\* C9 as claimed (SpecLiteral): a raw pattern p with no "*" that does not
\* start with the separator matches itself as given, cleaned or not:
\* NewPattern(p).Match(p) returns true.
C9_LiteralMatchesItselfUncleaned ==
    (op = "Match" /\ arg = raw) => result = RetBool(TRUE)

\* C9 as amended (SpecLiteral): such a pattern matches its own cleaned
\* path: NewPattern(p).Match(filepath.Clean(p)) returns true.
C9_LiteralMatchesItsCleanedPath ==
    (op = "Match" /\ arg = Clean(raw)) => result = RetBool(TRUE)

\* C9, witness: a raw pattern that cleaning changes, compiled to a plain
\* path pattern, was matched against its cleaned path.
C9_Witness ==
    /\ op = "Match"
    /\ raw # Clean(raw)
    /\ arg = Clean(raw)
    /\ pat.kind = "pathPattern"
    /\ StringsContains(arg, sep)
    /\ result = RetBool(TRUE)

\* C10 as claimed (SpecFilter): when some exclude pattern Matches the
\* prefix or one of its ancestor prefixes, HasPrefix(prefix) returns false,
\* whatever the include patterns are.
C10_ExcludedAncestorCoversBranch ==
    (/\ op = "Filter.HasPrefix"
     /\ ~nil
     /\ \E D \in Ancestors(arg) \cup {arg} :
           \E i \in 1..Len(exclude) : Matches(exclude[i], D))
        => result = RetBool(FALSE)

\* C10 as amended (SpecFilter): when some exclude pattern Matches the
\* prefix itself, HasPrefix(prefix) never returns true: it returns false,
\* or the Match of an exclude pattern on the prefix panics.
C10_ExcludedPrefixIsNeverAllowed ==
    (/\ op = "Filter.HasPrefix"
     /\ ~nil
     /\ \E i \in 1..Len(exclude) : Matches(exclude[i], arg))
        => \/ result = RetBool(FALSE)
           \/ /\ result = Panic
              /\ \E i \in 1..Len(exclude) : PatternMatch(exclude[i], arg).panic

\* C10, witness: an include pattern has the prefix, an exclude pattern
\* Matches it, and HasPrefix returned false.
C10_Witness ==
    /\ op = "Filter.HasPrefix"
    /\ ~nil
    /\ Len(StringsSplit(arg, sep)) >= 2
    /\ \E i \in 1..Len(include) : ReturnedTrue(PatternHasPrefix(include[i], arg))
    /\ \E i \in 1..Len(exclude) : Matches(exclude[i], arg)
    /\ result = RetBool(FALSE)

=============================================================================
